---- MODULE Spec2Model ----
(***************************************************************************)
(* Floating IP scheduler plugin (pkg/ipam/schedulerplugin).                *)
(*                                                                         *)
(* The plugin's handlers (Filter, Bind, AddPod/UpdatePod/RemovePod, the    *)
(* release loop and its unbind tasks) are modelled step by step: every     *)
(* call into the allocation store is one step, so that concurrent handlers *)
(* interleave at the granularity of store transactions.  The IPAM itself   *)
(* lives in pkg/ipam/floatingip, outside the sources at hand; its          *)
(* operations are modelled from their documented contracts.                *)
(***************************************************************************)
EXTENDS Integers, Sequences, FiniteSets, TLC

(***************************************************************************)
(* Bounds of the model.                                                    *)
(***************************************************************************)
\* number of routable subnets of the pool; subnet s holds s addresses
NumSubnets == 2
\* concurrent Bind requests (the extender serves requests in parallel)
NumBinders == 2
\* patch attempts that fit in Bind's 20 s budget
MaxPatchTries == 2
\* pods waiting in the unreleased channel at once (at most QueueCap)
MaxQueued == 1
\* unbind tasks alive at once
MaxTasks == 1
\* senders that may wait on the full unreleased channel at once
MaxSenders == 2
\* length of the node lists handed to Filter
MaxNodeList == 2

(***************************************************************************)
(* Program constants.                                                      *)
(***************************************************************************)
\* capacity of the unreleased channel: make(chan *v1.Pod, 10)
QueueCap == 10

(***************************************************************************)
(* Values.                                                                 *)
(***************************************************************************)
\* the empty owner key: the record is free
NoKey == << >>
\* a nil *IPInfo / nil net.IP
NilIP == <<0, 0>>
\* a nil *net.IPNet
NilSubnet == 0

Subnets == 1..NumSubnets
\* the configured pool: address <<s, i>> is the i-th address of subnet s
FloatingIPs == {ip \in Subnets \X (1..NumSubnets) : ip[2] <= ip[1]}

Namespaces == {"ns"}
PodNames == {"p1", "p2"}

\* fmtKey(name, namespace): the owner key namespace_name
fmtKey(name, namespace) == <<namespace, "_", name>>
\* keyInDB(pod): the owner key of a pod object
keyInDB(pod) == fmtKey(pod.name, pod.namespace)

Keys == {fmtKey(n, ns) : n \in PodNames, ns \in Namespaces}

(***************************************************************************)
(* Labels and selectors.  A label map is a set of <<key, value>> pairs     *)
(* with one value per key; a nil map and an empty map read the same.       *)
(***************************************************************************)
NilLabels == {}
\* labels.SelectorFromSet(set).Matches(labels): every pair of the set is a label
Matches(selector, labelMap) == selector \subseteq labelMap

objectSelector == {<<"network", "FLOATINGIP">>}
nodeSelectorUpperCase == {<<"network", "FLOATINGIP">>}
nodeSelector == {<<"network", "floatingip">>}
fipInvariantSeletor == {<<"floatingip", "invariant">>}

wantedObjectByKeyOnly(labelMap) == \E l \in labelMap : l[1] = "network"
\* wantedObject(o), on the object's labels
wantedObject(labelMap) ==
    IF labelMap = NilLabels THEN FALSE
    ELSE IF ~Matches(objectSelector, labelMap) THEN FALSE
    ELSE TRUE

(***************************************************************************)
(* Nodes of the cluster.                                                   *)
(***************************************************************************)
Nodes ==
    { [name |-> "n1", labels |-> {<<"network", "floatingip">>},
       addresses |-> << [type |-> "Hostname", address |-> <<1, 101>>],
                        [type |-> "InternalIP", address |-> <<1, 101>>] >>],
      [name |-> "n2", labels |-> {<<"network", "floatingip">>, <<"zone", "a">>},
       addresses |-> << [type |-> "InternalIP", address |-> <<2, 102>>] >>],
      [name |-> "n3", labels |-> {<<"network", "FLOATINGIP">>},
       addresses |-> << [type |-> "InternalIP", address |-> <<1, 103>>] >>],
      [name |-> "n4", labels |-> {<<"network", "floatingip">>},
       addresses |-> << [type |-> "ExternalIP", address |-> <<1, 104>>] >>],
      [name |-> "n5", labels |-> {<<"network", "floatingip">>},
       addresses |-> << [type |-> "InternalIP", address |-> <<0, 105>>] >>],
      [name |-> "n6", labels |-> NilLabels,
       addresses |-> << [type |-> "InternalIP", address |-> <<2, 106>>] >> ] }

NodeNames == {n.name : n \in Nodes}
NodeByName(name) == CHOOSE n \in Nodes : n.name = name

\* getNodeIP: the address of the first InternalIP entry, nil when there is none
getNodeIP(node) ==
    LET idx == {i \in 1..Len(node.addresses) : node.addresses[i].type = "InternalIP"}
    IN  IF idx = {} THEN NilIP
        ELSE node.addresses[CHOOSE i \in idx : \A j \in idx : i <= j].address

(***************************************************************************)
(* State.                                                                  *)
(***************************************************************************)
VARIABLES
    owner,       \* allocation store: configured address -> owner key (NoKey when free)
    nodeSubnet,  \* p.nodeSubnet: node name -> subnet cache, as a set of <<name, subnet>>
    unreleased,  \* p.unreleased: the channel of pods awaiting release evaluation
    annot,       \* orchestrator: owner key of a pod -> its floatingip annotation
    bind,        \* the Bind requests in flight, one record per request thread
    task,        \* the unbind tasks spawned by loop()
    filter,      \* the Filter request in flight and its result
    crashed,     \* the process died on an unrecovered panic
    livePods,    \* orchestrator: the owner keys of the pods that exist and are
                 \* neither deleted nor evicted
    watcher,     \* startup and pool watcher: p.lastFIPConf, the pool the IPAM has
                 \* applied, and what the last updateConfigMap did
    event        \* history: the pod event handler that ran in the last step, if any

vars == <<owner, nodeSubnet, unreleased, annot, bind, task, filter, crashed, livePods,
          watcher, event>>

Binders == 1..NumBinders
Tasks == 1..MaxTasks

(***************************************************************************)
(* IPAM (pkg/ipam/floatingip), by its contract.                            *)
(***************************************************************************)
\* the addresses whose record carries key
Owned(o, key) == {ip \in DOMAIN o : o[ip] = key}

\* lexicographic order on addresses
IPLess(a, b) == a[1] < b[1] \/ (a[1] = b[1] /\ a[2] < b[2])
FirstIP(S) == CHOOSE ip \in S : \A other \in S : ip = other \/ IPLess(ip, other)

\* net.IPNet.String()
SubnetString(subnet) == <<"cidr", subnet>>

\* IPAM.QueryFirst(key): the first record of key, nil when it owns none
QueryFirst(o, key) == IF Owned(o, key) = {} THEN NilIP ELSE FirstIP(Owned(o, key))

\* IPAM.QueryRoutableSubnetByKey(key): the subnets in which key holds a record;
\* with the empty key these are the subnets that have a free record
QueryRoutableSubnetByKey(o, key) == {SubnetString(ip[1]) : ip \in Owned(o, key)}

\* IPAM.RoutableSubnet(ip): the configured subnet containing ip, else nil
RoutableSubnet(nodeIP) == IF nodeIP[1] \in Subnets THEN nodeIP[1] ELSE NilSubnet

\* store.ClaimOneInSubnet(key, subnet): claims the smallest free record of subnet
ClaimOneInSubnet(o, key, subnet) ==
    LET free == {ip \in Owned(o, NoKey) : ip[1] = subnet}
    IN  IF free = {} THEN [err |-> "ErrNoEnoughIP", ip |-> NilIP, owner |-> o]
        ELSE [err |-> "nil", ip |-> FirstIP(free),
              owner |-> [o EXCEPT ![FirstIP(free)] = key]]

\* IPAM.AllocateInSubnet(key, subnet), one store transaction
AllocateInSubnet(o, key, subnet) ==
    IF Owned(o, key) # {}
    THEN [err |-> "ErrAlreadyAllocated", ip |-> FirstIP(Owned(o, key)), owner |-> o]
    ELSE ClaimOneInSubnet(o, key, subnet)

\* IPAM.Release(keys): frees every record of the keys; freeing a free record is a no-op
Release(o, keys) == [ip \in DOMAIN o |-> IF o[ip] \in keys THEN NoKey ELSE o[ip]]

(***************************************************************************)
(* Node-subnet resolution.                                                 *)
(***************************************************************************)
CacheHit(cache, name) == \E e \in cache : e[1] = name
CacheGet(cache, name) == (CHOOSE e \in cache : e[1] = name)[2]

\* the slow path shared by getNodeSubnet and queryNodeSubnet
SubnetOfNode(node) ==
    LET nodeIP == getNodeIP(node)
    IN  IF nodeIP = NilIP
        THEN [subnet |-> NilSubnet, err |-> "FloatingIPPlugin:UnknowNode"]
        ELSE IF RoutableSubnet(nodeIP) # NilSubnet
        THEN [subnet |-> RoutableSubnet(nodeIP), err |-> "nil"]
        ELSE [subnet |-> NilSubnet, err |-> "FloatingIPPlugin:NoFIPConfigNode"]

\* getNodeSubnet(node): used by Filter, which holds the node object
getNodeSubnet(cache, node) ==
    IF ~CacheHit(cache, node.name) THEN SubnetOfNode(node)
    ELSE [subnet |-> CacheGet(cache, node.name), err |-> "nil"]

\* queryNodeSubnet(nodeName): used by Bind; fetched tells whether Nodes().Get
\* delivered the node within the poll's budget
queryNodeSubnet(cache, nodeName, fetched) ==
    IF ~CacheHit(cache, nodeName)
    THEN IF ~fetched THEN [subnet |-> NilSubnet, err |-> "ErrGetNode"]
         ELSE SubnetOfNode(NodeByName(nodeName))
    ELSE [subnet |-> CacheGet(cache, nodeName), err |-> "nil"]

(***************************************************************************)
(* Initial state: the pool is configured and free, nothing is in flight.   *)
(***************************************************************************)
NoAnnotation == << >>
\* json.Marshal(ipInfo), the value of the floatingip annotation
MarshalIPInfo(ip) == <<"ip", ip[1], ip[2]>>

IdleBind == [pc |-> "idle", key |-> NoKey, subnet |-> NilSubnet, nerr |-> "nil",
             ip |-> NilIP, how |-> "", err |-> "nil", tries |-> 0]
NoPod == [name |-> "", namespace |-> "", labels |-> NilLabels,
          phase |-> "", reason |-> ""]
\* no workload lookup was made
NoLookup == [err |-> "", tapps |-> << >>]
IdleTask == [pc |-> "idle", pod |-> NoPod, ip |-> NilIP, err |-> "nil",
             lookup |-> NoLookup]
IdleFilter == [pc |-> "idle", pod |-> NoPod, nodes |-> << >>, subnets |-> {},
               accepted |-> << >>, failed |-> {}, err |-> "nil"]

NoEvent == [kind |-> "", pod |-> NoPod]

\* what one call of updateConfigMap went through: what the fetch gave ("error",
\* "nokey" or "value"), the value, whether it was unmarshalled, whether ConfigurePool
\* was called and what it answered, and what updateConfigMap returned
NoPoll == [fetch |-> "", val |-> "", parsed |-> FALSE, configured |-> FALSE,
           cfgerr |-> "nil", updated |-> FALSE, err |-> "nil"]
\* no pool definition has been applied
NoPool == << >>
\* the inline pool definitions of the startup configuration
InlinePool == <<"pool", "inline">>
\* NewFloatingIPPlugin with inline pool definitions: ConfigurePool(conf.FloatingIPs)
\* succeeded, the plugin is constructed and no watcher runs
InlineWatcher == [pc |-> "inline", lastFIPConf |-> "", pool |-> InlinePool,
                  last |-> NoPoll]

Init ==
    /\ owner = [ip \in FloatingIPs |-> NoKey]
    /\ nodeSubnet = {}
    /\ unreleased = << >>
    /\ annot = [k \in Keys |-> NoAnnotation]
    /\ bind = [b \in Binders |-> IdleBind]
    /\ task = [t \in Tasks |-> IdleTask]
    /\ filter = IdleFilter
    /\ crashed = FALSE
    /\ livePods = {}
    /\ watcher = InlineWatcher
    /\ event = NoEvent

(***************************************************************************)
(* Bind(args) and allocateIP(key, nodeName).                               *)
(***************************************************************************)
\* a Bind that returns with an error
BindDone(b, err) == [bind EXCEPT ![b].pc = "done", ![b].err = err]

ReusesRecordNever(ipInfo) == FALSE
\* allocateIP: if ipInfo != nil, the record is reused
ReusesRecord(ipInfo) == ipInfo # NilIP

AllocateErrorWrapped(err) == "failed to allocate floating ip"
\* allocateIP: the error of AllocateInSubnet is returned directly, since invokers
\* depend on its type
AllocateError(err) == err

\* allocateIP up to the allocation: QueryFirst(key) decides between reuse and
\* allocate; on the allocate path subnet, err := p.queryNodeSubnet(nodeName) follows,
\* and its err is overwritten by the next statement before anything reads it
BindQueryFirst(b, podName, podNamespace, node, dbok, fetched) ==
    LET key == fmtKey(podName, podNamespace)
        ipInfo == QueryFirst(owner, key)
        r == queryNodeSubnet(nodeSubnet, node, fetched)
        fresh == [IdleBind EXCEPT !.key = key]
    IN  /\ ~crashed
        /\ bind[b].pc \in {"idle", "done"}
        /\ bind' = [bind EXCEPT ![b] =
              IF ~dbok
              THEN [fresh EXCEPT !.pc = "done", !.err = "failed to query floating ip"]
              ELSE IF ReusesRecord(ipInfo)
              THEN [fresh EXCEPT !.pc = "patch", !.how = "reused", !.ip = ipInfo]
              ELSE [fresh EXCEPT !.pc = "allocate", !.subnet = r.subnet,
                                 !.nerr = r.err]]
        /\ UNCHANGED <<owner, nodeSubnet, unreleased, annot, task, filter, crashed, livePods, watcher>>

\* allocateIP: _, err = p.ipam.AllocateInSubnet(key, subnet); an error is returned
\* as it is
BindAllocate(b, dbok) ==
    LET r == AllocateInSubnet(owner, bind[b].key, bind[b].subnet)
    IN  /\ ~crashed
        /\ bind[b].pc = "allocate"
        /\ IF ~dbok
           THEN /\ bind' = BindDone(b, AllocateError("ErrStore"))
                /\ owner' = owner
           ELSE IF r.err # "nil"
           THEN /\ bind' = BindDone(b, AllocateError(r.err))
                /\ owner' = owner
           ELSE /\ bind' = [bind EXCEPT ![b].pc = "requery", ![b].how = "allocated",
                                        ![b].subnet = NilSubnet, ![b].nerr = "nil"]
                /\ owner' = r.owner
        /\ UNCHANGED <<nodeSubnet, unreleased, annot, task, filter, crashed, livePods, watcher>>

BindRequeryEmptyKey(b, dbok) ==
    LET ipInfo == QueryFirst(owner, NoKey)
    IN  /\ ~crashed
        /\ bind[b].pc = "requery"
        /\ bind' = IF ~dbok THEN BindDone(b, "failed to query floating ip")
                   ELSE IF ipInfo = NilIP THEN BindDone(b, "nil floating ip")
                   ELSE [bind EXCEPT ![b].pc = "patch", ![b].ip = ipInfo]
        /\ UNCHANGED <<owner, nodeSubnet, unreleased, annot, task, filter, crashed, livePods, watcher>>

\* allocateIP: the re-query after a successful allocation
BindRequery(b, dbok) ==
    LET ipInfo == QueryFirst(owner, bind[b].key)
    IN  /\ ~crashed
        /\ bind[b].pc = "requery"
        /\ bind' = IF ~dbok THEN BindDone(b, "failed to query floating ip")
                   ELSE IF ipInfo = NilIP THEN BindDone(b, "nil floating ip")
                   ELSE [bind EXCEPT ![b].pc = "patch", ![b].ip = ipInfo]
        /\ UNCHANGED <<owner, nodeSubnet, unreleased, annot, task, filter, crashed, livePods, watcher>>

BindPatchRollsBack(b, patched) ==
    /\ ~crashed
    /\ bind[b].pc = "patch"
    /\ IF patched
       THEN /\ annot' = [annot EXCEPT ![bind[b].key] = MarshalIPInfo(bind[b].ip)]
            /\ bind' = [bind EXCEPT ![b].pc = "done", ![b].tries = @ + 1]
            /\ owner' = owner
       ELSE /\ annot' = annot
            /\ bind' = IF bind[b].tries + 1 >= MaxPatchTries
                       THEN [bind EXCEPT ![b].pc = "done", ![b].tries = @ + 1,
                                         ![b].err = "failed to update pod"]
                       ELSE [bind EXCEPT ![b].tries = @ + 1]
            /\ owner' = IF bind[b].tries + 1 >= MaxPatchTries
                        THEN Release(owner, {bind[b].key}) ELSE owner
    /\ UNCHANGED <<nodeSubnet, unreleased, task, filter, crashed, livePods, watcher>>

\* Bind: one attempt of the merge-patch inside wait.PollImmediate; the poll gives
\* up when its budget is spent and Bind returns the error, leaving the store alone
BindPatch(b, patched) ==
    /\ ~crashed
    /\ bind[b].pc = "patch"
    /\ IF patched
       THEN /\ annot' = [annot EXCEPT ![bind[b].key] = MarshalIPInfo(bind[b].ip)]
            /\ bind' = [bind EXCEPT ![b].pc = "done", ![b].tries = @ + 1]
       ELSE /\ annot' = annot
            /\ bind' = IF bind[b].tries + 1 >= MaxPatchTries
                       THEN [bind EXCEPT ![b].pc = "done", ![b].tries = @ + 1,
                                         ![b].err = "failed to update pod"]
                       ELSE [bind EXCEPT ![b].tries = @ + 1]
    /\ owner' = owner
    /\ UNCHANGED <<nodeSubnet, unreleased, task, filter, crashed, livePods, watcher>>

\* the steps of request thread b, for Bind requests that name a node of nodes and
\* meet the store answering as dbs tells (TRUE: the call succeeds) and the node
\* fetch as fetches tells
BindStep(b, nodes, dbs, fetches) ==
    \/ \E podName \in PodNames, ns \in Namespaces, node \in nodes,
          dbok \in dbs, fetched \in fetches :
          BindQueryFirst(b, podName, ns, node, dbok, fetched)
    \/ \E dbok \in dbs : BindAllocate(b, dbok)
    \/ \E dbok \in dbs : BindRequery(b, dbok)
    \/ \E patched \in BOOLEAN : BindPatch(b, patched)

(***************************************************************************)
(* Pods, as the informer hands them to the event handlers.                 *)
(***************************************************************************)
TAppInstanceKey == "tapp_instance_key"
PodLabelSets ==
    { NilLabels,
      {<<"network", "FLOATINGIP">>},
      {<<"network", "floatingip">>},
      {<<"network", "FLOATINGIP">>, <<"floatingip", "invariant">>,
       <<TAppInstanceKey, "0">>},
      {<<"floatingip", "invariant">>, <<TAppInstanceKey, "0">>} }
Pods == [name : PodNames, namespace : Namespaces, labels : PodLabelSets,
         phase : {"Running", "Failed"}, reason : {"", "Evicted"}]

\* pod.Labels[key]: the empty string when the label is absent
LabelValue(labelMap, key) ==
    IF \E l \in labelMap : l[1] = key
    THEN (CHOOSE l \in labelMap : l[1] = key)[2]
    ELSE ""

evictedAnyFailure(pod) == pod.phase = "Failed"
\* evicted(pod)
evicted(pod) == pod.phase = "Failed" /\ pod.reason = "Evicted"

\* p.unreleased <- pod completes when the channel has room
CanSend == Len(unreleased) < QueueCap /\ Len(unreleased) < MaxQueued

\* AddPod(pod): returns nil
AddPod(pod) ==
    /\ ~crashed
    /\ UNCHANGED <<owner, nodeSubnet, unreleased, annot, bind, task, filter, crashed, livePods, watcher>>

\* UpdatePod(oldPod, newPod)
UpdatePod(oldPod, newPod) ==
    /\ ~crashed
    /\ IF ~wantedObject(newPod.labels) THEN unreleased' = unreleased
       ELSE IF evicted(newPod)
       THEN CanSend /\ unreleased' = Append(unreleased, newPod)
       ELSE unreleased' = unreleased
    /\ UNCHANGED <<owner, nodeSubnet, annot, bind, task, filter, crashed, livePods, watcher>>

\* RemovePod(pod)
RemovePod(pod) ==
    /\ ~crashed
    /\ IF ~wantedObject(pod.labels) THEN unreleased' = unreleased
       ELSE CanSend /\ unreleased' = Append(unreleased, pod)
    /\ UNCHANGED <<owner, nodeSubnet, annot, bind, task, filter, crashed, livePods, watcher>>

(***************************************************************************)
(* loop() and the unbind task it spawns per dequeued pod.                  *)
(***************************************************************************)
\* what TAppLister.GetPodTApps(pod) may deliver: an error, or a list of workloads,
\* each with its Spec.Statuses map (instance id -> status)
StatusMaps ==
    { {}, {<<"0", "Killed">>}, {<<"0", "killed">>}, {<<"0", "Running">>},
      {<<"1", "Killed">>}, {<<"0", "Running">>, <<"1", "Killed">>} }
TAppLookups ==
    {[err |-> "ErrLookup", tapps |-> << >>], [err |-> "nil", tapps |-> << >>]}
       \cup {[err |-> "nil", tapps |-> <<m>>] : m \in StatusMaps}

\* gaiav1.INSTANCE_KILLED
INSTANCE_KILLED == "Killed"
\* strings.ToLower on the status strings
ToLower(str) ==
    CASE str = "Killed" -> "killed"
      [] str = "Running" -> "running"
      [] OTHER -> str
\* tappInstanceKilled(status)
tappInstanceKilled(status) == ToLower(status) = ToLower(INSTANCE_KILLED)

\* unbind(pod), up to its decision: "release" (releasePodIP is called), "retain"
\* (falls through and returns nil) or "panic" (tapps[0] of an empty list)
unbindAlwaysReleases(pod, lookup) == "release"
unbindDecision(pod, lookup) ==
    IF ~Matches(fipInvariantSeletor, pod.labels) THEN "release"
    ELSE IF lookup.err # "nil" THEN "release"
    ELSE IF Len(lookup.tapps) = 0 THEN "panic"
    ELSE IF \E st \in lookup.tapps[1] :
               /\ tappInstanceKilled(st[2])
               /\ st[1] = LabelValue(pod.labels, TAppInstanceKey)
         THEN "release"
         ELSE "retain"

LoopRecvInline(t) ==
    /\ ~crashed
    /\ Len(unreleased) > 0
    /\ \A u \in DOMAIN task : task[u].pc \in {"idle", "done"}
    /\ task' = [task EXCEPT ![t] = [IdleTask EXCEPT !.pc = "unbind",
                                                   !.pod = Head(unreleased)]]
    /\ unreleased' = Tail(unreleased)
    /\ UNCHANGED <<owner, nodeSubnet, annot, bind, filter, crashed, livePods, watcher>>

LoopRecvDrops(t) ==
    /\ ~crashed
    /\ Len(unreleased) > 0
    /\ task[t].pc \in {"idle", "done"}
    /\ \A u \in Tasks : u < t => task[u].pc \notin {"idle", "done"}
    /\ task' = task
    /\ unreleased' = Tail(unreleased)
    /\ UNCHANGED <<owner, nodeSubnet, annot, bind, filter, crashed, livePods, watcher>>

\* loop(): receive one pod and spawn its task
LoopRecv(t) ==
    /\ ~crashed
    /\ Len(unreleased) > 0
    /\ task[t].pc \in {"idle", "done"}
    /\ \A u \in Tasks : u < t => task[u].pc \notin {"idle", "done"}
    /\ task' = [task EXCEPT ![t] = [IdleTask EXCEPT !.pc = "unbind",
                                                   !.pod = Head(unreleased)]]
    /\ unreleased' = Tail(unreleased)
    /\ UNCHANGED <<owner, nodeSubnet, annot, bind, filter, crashed, livePods, watcher>>

\* the task runs unbind(pod) up to the first store call of releasePodIP:
\* QueryFirst(key); a nil record ends releasePodIP without a release.  The answer
\* of GetPodTApps is kept in the task when unbind asked for it
TaskUnbind(t, lookup, dbok) ==
    LET pod == task[t].pod
        decision == unbindDecision(pod, lookup)
        ipInfo == QueryFirst(owner, keyInDB(pod))
        asked == IF Matches(fipInvariantSeletor, pod.labels) THEN lookup ELSE NoLookup
    IN  /\ ~crashed
        /\ task[t].pc = "unbind"
        /\ crashed' = (decision = "panic")
        /\ task' = [task EXCEPT ![t] =
              IF decision = "panic"
              THEN [@ EXCEPT !.pc = "done", !.err = "panic", !.lookup = asked]
              ELSE IF decision = "retain" THEN [@ EXCEPT !.pc = "done", !.lookup = asked]
              ELSE IF ~dbok
              THEN [@ EXCEPT !.pc = "backoff", !.err = "failed to query floating ip",
                             !.lookup = asked]
              ELSE IF ipInfo = NilIP THEN [@ EXCEPT !.pc = "done", !.lookup = asked]
              ELSE [@ EXCEPT !.pc = "release", !.ip = ipInfo, !.lookup = asked]]
        /\ UNCHANGED <<owner, nodeSubnet, unreleased, annot, bind, filter, livePods, watcher>>

TaskReleaseKeepsRecord(t, dbok) ==
    /\ ~crashed
    /\ task[t].pc = "release"
    /\ IF ~dbok
       THEN /\ task' = [task EXCEPT ![t].pc = "backoff",
                                    ![t].err = "failed to release floating ip"]
            /\ owner' = owner
       ELSE /\ task' = [task EXCEPT ![t].pc = "done"]
            /\ owner' = owner
    /\ UNCHANGED <<nodeSubnet, unreleased, annot, bind, filter, crashed, livePods, watcher>>

\* releasePodIP, second store call: Release([key])
TaskRelease(t, dbok) ==
    /\ ~crashed
    /\ task[t].pc = "release"
    /\ IF ~dbok
       THEN /\ task' = [task EXCEPT ![t].pc = "backoff",
                                    ![t].err = "failed to release floating ip"]
            /\ owner' = owner
       ELSE /\ task' = [task EXCEPT ![t].pc = "done"]
            /\ owner' = Release(owner, {keyInDB(task[t].pod)})
    /\ UNCHANGED <<nodeSubnet, unreleased, annot, bind, filter, crashed, livePods, watcher>>

TaskResendDrops(t) ==
    /\ ~crashed
    /\ task[t].pc = "backoff"
    /\ CanSend
    /\ unreleased' = unreleased
    /\ task' = [task EXCEPT ![t].pc = "done"]
    /\ UNCHANGED <<owner, nodeSubnet, annot, bind, filter, crashed, livePods, watcher>>

\* the task of a failed unbind, after its sleep: p.unreleased <- pod
TaskResend(t) ==
    /\ ~crashed
    /\ task[t].pc = "backoff"
    /\ CanSend
    /\ unreleased' = Append(unreleased, task[t].pod)
    /\ task' = [task EXCEPT ![t].pc = "done"]
    /\ UNCHANGED <<owner, nodeSubnet, annot, bind, filter, crashed, livePods, watcher>>

TaskStep(t) ==
    \/ LoopRecv(t)
    \/ \E lookup \in TAppLookups, dbok \in BOOLEAN : TaskUnbind(t, lookup, dbok)
    \/ \E dbok \in BOOLEAN : TaskRelease(t, dbok)
    \/ TaskResend(t)

\* a pod event handler runs on a pod of pods; with record set, the history
\* variable tells which handler ran on which pod
PodEvent(pods, record) ==
    \/ \E pod \in pods :
          /\ AddPod(pod)
          /\ event' = IF record THEN [kind |-> "AddPod", pod |-> pod] ELSE NoEvent
    \/ \E oldPod, newPod \in pods :
          /\ oldPod.name = newPod.name /\ oldPod.labels = newPod.labels
          /\ UpdatePod(oldPod, newPod)
          /\ event' = IF record THEN [kind |-> "UpdatePod", pod |-> newPod] ELSE NoEvent
    \/ \E pod \in pods :
          /\ RemovePod(pod)
          /\ event' = IF record THEN [kind |-> "RemovePod", pod |-> pod] ELSE NoEvent

(***************************************************************************)
(* The plugin at work: pod events, the release loop and a Bind request.    *)
(* The pods of the events are the evicted incarnations of pod p1, so that  *)
(* both UpdatePod and RemovePod feed the loop; Bind serves p1 and p2.      *)
(***************************************************************************)
LoopPods == {p \in Pods : evicted(p) /\ p.name = "p1"}
Next ==
    \/ PodEvent(LoopPods, FALSE)
    \/ \E t \in Tasks : TaskStep(t) /\ event' = NoEvent
    \/ BindStep(1, {"n1", "n2"}, {TRUE}, {TRUE}) /\ event' = NoEvent
Spec == Init /\ [][Next]_vars

(***************************************************************************)
(* The event handlers and the loop in front of an unallocated pool, with   *)
(* the handler of every step on record.                                    *)
(***************************************************************************)
EventPods == {p \in Pods : p.name = "p1"}
NextEvents ==
    \/ PodEvent(EventPods, TRUE)
    \/ \E t \in Tasks :
          /\ \/ LoopRecv(t)
             \/ \E lookup \in TAppLookups, dbok \in BOOLEAN : TaskUnbind(t, lookup, dbok)
             \/ TaskResend(t)
          /\ event' = NoEvent
SpecEvents == Init /\ [][NextEvents]_vars

(***************************************************************************)
(* The plugin at work while the store answers every call and every         *)
(* workload lookup of an invariant pod delivers an error or a workload.    *)
(* loop() is a goroutine of its own that does nothing but receive and      *)
(* spawn, and every spawned task is a goroutine that runs to its end: each *)
(* of their steps is taken once it stays enabled.                          *)
(***************************************************************************)
LiveLookups == {l \in TAppLookups : l.err # "nil" \/ Len(l.tapps) > 0}
NextLive ==
    \/ PodEvent(LoopPods, FALSE)
    \/ \E t \in Tasks : LoopRecv(t) /\ event' = NoEvent
    \/ \E t \in Tasks, lookup \in LiveLookups :
          TaskUnbind(t, lookup, TRUE) /\ event' = NoEvent
    \/ \E t \in Tasks : TaskRelease(t, TRUE) /\ event' = NoEvent
    \/ BindStep(1, {"n1", "n2"}, {TRUE}, {TRUE}) /\ event' = NoEvent
LiveFairness ==
    /\ WF_vars(\E t \in Tasks : LoopRecv(t) /\ event' = NoEvent)
    /\ \A t \in Tasks :
          /\ WF_vars(\E lookup \in LiveLookups :
                        TaskUnbind(t, lookup, TRUE) /\ event' = NoEvent)
          /\ WF_vars(TaskRelease(t, TRUE) /\ event' = NoEvent)
SpecLive == Init /\ [][NextLive]_vars /\ LiveFairness

(***************************************************************************)
(* The release loop in front of a store that fails now and then.  loop()   *)
(* spawns a goroutine per pod it receives, so it is never short of tasks:  *)
(* with the pods in the channel and in tasks counted against the task      *)
(* slots of the model, a slot is free whenever the channel has a pod.  A   *)
(* store call that is tried again and again does not fail for ever.        *)
(***************************************************************************)
ActiveTasks == {t \in Tasks : task[t].pc \notin {"idle", "done"}}
RoomForPod == Len(unreleased) + Cardinality(ActiveTasks) < MaxTasks
NextRetry ==
    \/ RoomForPod /\ PodEvent(LoopPods, FALSE)
    \/ \E t \in Tasks : LoopRecv(t) /\ event' = NoEvent
    \/ \E t \in Tasks, lookup \in LiveLookups, dbok \in BOOLEAN :
          TaskUnbind(t, lookup, dbok) /\ event' = NoEvent
    \/ \E t \in Tasks, dbok \in BOOLEAN : TaskRelease(t, dbok) /\ event' = NoEvent
    \/ \E t \in Tasks : TaskResend(t) /\ event' = NoEvent
    \/ BindStep(1, {"n1", "n2"}, {TRUE}, {TRUE}) /\ event' = NoEvent
\* the pods that UpdatePod and RemovePod send to the loop
RetryPods == {p \in LoopPods : wantedObject(p.labels)}
\* the store calls made for one pod do not fail for ever, whichever tasks make them
RetryFairness ==
    /\ WF_vars(\E t \in Tasks : LoopRecv(t) /\ event' = NoEvent)
    /\ \A t \in Tasks : WF_vars(TaskResend(t) /\ event' = NoEvent)
    /\ \A pod \in RetryPods :
          /\ SF_vars(\E t \in Tasks, lookup \in LiveLookups :
                        /\ task[t].pod = pod
                        /\ TaskUnbind(t, lookup, TRUE) /\ event' = NoEvent)
          /\ SF_vars(\E t \in Tasks :
                        /\ task[t].pod = pod
                        /\ TaskRelease(t, TRUE) /\ event' = NoEvent)
SpecRetry == Init /\ [][NextRetry]_vars /\ RetryFairness

(***************************************************************************)
(* The periodic resync.  resyncPod itself is not among the sources at      *)
(* hand; by its contract it treats every allocation whose pod is absent,   *)
(* deleted or evicted as unbind input.  NewFloatingIPPlugin runs it for    *)
(* ever, once per resync interval, and only logs its error.                *)
(***************************************************************************)
\* resyncPod, for the allocation of one key: released when no live pod has the key
resyncPod(o, live, key) ==
    IF key \notin live /\ Owned(o, key) # {} THEN Release(o, {key}) ELSE o

ResyncSkipped(key, dbok) ==
    /\ ~crashed
    /\ UNCHANGED <<owner, nodeSubnet, unreleased, annot, bind, task, filter, crashed, livePods, watcher>>

\* one round of go wait.Forever(func() { plugin.resyncPod() }, interval), at the
\* allocation of key; a failing store call makes resyncPod return an error, which
\* is logged
Resync(key, dbok) ==
    /\ ~crashed
    /\ owner' = IF dbok THEN resyncPod(owner, livePods, key) ELSE owner
    /\ UNCHANGED <<nodeSubnet, unreleased, annot, bind, task, filter, crashed, livePods, watcher>>

\* the orchestrator creates the pod of key
PodCreated(key) ==
    /\ ~crashed
    /\ key \notin livePods
    /\ livePods' = livePods \cup {key}
    /\ UNCHANGED <<owner, nodeSubnet, unreleased, annot, bind, task, filter, crashed, watcher>>

\* the pod of key is deleted or evicted and the plugin misses the event
PodGone(key) ==
    /\ ~crashed
    /\ key \in livePods
    /\ livePods' = livePods \ {key}
    /\ annot' = [annot EXCEPT ![key] = NoAnnotation]
    /\ UNCHANGED <<owner, nodeSubnet, unreleased, bind, task, filter, crashed, watcher>>

\* Bind requests come for pods that exist, and a patch succeeds only on a pod that
\* exists
NextResync ==
    \/ \E key \in Keys : PodCreated(key) /\ event' = NoEvent
    \/ \E key \in Keys : PodGone(key) /\ event' = NoEvent
    \/ /\ BindStep(1, {"n1", "n2"}, {TRUE}, {TRUE})
       /\ bind[1].pc \in {"idle", "done"} => bind'[1].key \in livePods
       /\ annot' # annot => bind[1].key \in livePods
       /\ event' = NoEvent
    \/ \E key \in Keys, dbok \in BOOLEAN : Resync(key, dbok) /\ event' = NoEvent
ResyncFairness == \A key \in Keys : WF_vars(Resync(key, TRUE) /\ event' = NoEvent)
SpecResync == Init /\ [][NextResync]_vars /\ ResyncFairness

(***************************************************************************)
(* Startup without inline pool definitions, and the pool watcher.          *)
(***************************************************************************)
\* the values the floatingips key of the configmap may carry: two pool definitions,
\* a definition whose subnets overlap, and text that is no JSON
ConfigValues == {"pool-a", "pool-b", "pool-overlap", "not-json"}
\* what ConfigMaps(ns).Get(name) may deliver
ConfigMaps ==
    {[err |-> "ErrGet", data |-> {}], [err |-> "nil", data |-> {}]}
       \cup {[err |-> "nil", data |-> {<<"floatingips", v>>}] : v \in ConfigValues}

\* json.Unmarshal([]byte(val), &conf): the error and the definitions
Unmarshal(val) ==
    CASE val = "pool-a" -> [err |-> "nil", conf |-> <<"pool", "a">>]
      [] val = "pool-b" -> [err |-> "nil", conf |-> <<"pool", "b">>]
      [] val = "pool-overlap" -> [err |-> "nil", conf |-> <<"pool", "overlap">>]
      [] OTHER -> [err |-> "ErrSyntax", conf |-> NoPool]

\* the addresses a pool definition configures
PoolIPs(conf) ==
    CASE conf = <<"pool", "a">> -> FloatingIPs
      [] conf = <<"pool", "b">> -> {ip \in FloatingIPs : ip[2] = 1}
      [] OTHER -> {}

\* IPAM.ConfigurePool(defs): validates non-overlap, reconciles the records in one
\* transaction (records that are owned are kept), updates the subnet index; fails
\* with a ConfigError or with the store's error and then changes nothing
ConfigurePool(o, pool, conf, dbok) ==
    IF conf = <<"pool", "overlap">> THEN [err |-> "ConfigError", owner |-> o, pool |-> pool]
    ELSE IF ~dbok THEN [err |-> "ErrStore", owner |-> o, pool |-> pool]
    ELSE [err |-> "nil", pool |-> conf,
          owner |-> [ip \in PoolIPs(conf) \cup {x \in DOMAIN o : o[x] # NoKey} |->
                        IF ip \in DOMAIN o THEN o[ip] ELSE NoKey]]

updateConfigMapAlways(w, o, cm, dbok) ==
    LET val == (CHOOSE d \in cm.data : d[1] = "floatingips")[2]
        u == Unmarshal(val)
        c == ConfigurePool(o, w.pool, u.conf, dbok)
        poll == [NoPoll EXCEPT !.fetch = "value", !.val = val]
    IN  IF cm.err # "nil"
        THEN [w |-> w, owner |-> o,
              poll |-> [NoPoll EXCEPT !.fetch = "error",
                                      !.err = "failed to get floatingip configmap"]]
        ELSE IF ~\E d \in cm.data : d[1] = "floatingips"
        THEN [w |-> w, owner |-> o,
              poll |-> [NoPoll EXCEPT !.fetch = "nokey",
                                      !.err = "doesn't have a key floatingips"]]
        ELSE IF u.err # "nil"
        THEN [w |-> w, owner |-> o, poll |-> [poll EXCEPT !.err = "failed to unmarshal"]]
        ELSE [w |-> [w EXCEPT !.lastFIPConf = val, !.pool = c.pool], owner |-> c.owner,
              poll |-> [poll EXCEPT !.parsed = TRUE, !.configured = TRUE,
                                    !.cfgerr = c.err, !.updated = TRUE]]

\* updateConfigMap(), on plugin state w and store o, when the fetch delivers cm and
\* the store answers as dbok tells: the new plugin state and store, and what the
\* call went through.  p.lastFIPConf is assigned once the value is unmarshalled;
\* an error of ConfigurePool is logged and true is returned all the same
updateConfigMap(w, o, cm, dbok) ==
    LET val == (CHOOSE d \in cm.data : d[1] = "floatingips")[2]
        u == Unmarshal(val)
        c == ConfigurePool(o, w.pool, u.conf, dbok)
        poll == [NoPoll EXCEPT !.fetch = "value", !.val = val]
    IN  IF cm.err # "nil"
        THEN [w |-> w, owner |-> o,
              poll |-> [NoPoll EXCEPT !.fetch = "error",
                                      !.err = "failed to get floatingip configmap"]]
        ELSE IF ~\E d \in cm.data : d[1] = "floatingips"
        THEN [w |-> w, owner |-> o,
              poll |-> [NoPoll EXCEPT !.fetch = "nokey",
                                      !.err = "doesn't have a key floatingips"]]
        ELSE IF val = w.lastFIPConf
        THEN [w |-> w, owner |-> o, poll |-> poll]
        ELSE IF u.err # "nil"
        THEN [w |-> w, owner |-> o, poll |-> [poll EXCEPT !.err = "failed to unmarshal"]]
        ELSE [w |-> [w EXCEPT !.lastFIPConf = val, !.pool = c.pool], owner |-> c.owner,
              poll |-> [poll EXCEPT !.parsed = TRUE, !.configured = TRUE,
                                    !.cfgerr = c.err, !.updated = TRUE]]

\* NewFloatingIPPlugin without inline definitions: one round of wait.PollInfinite,
\* which ends when updateConfigMap returns true; then the watcher, the resync and
\* the release loop are started and the plugin is returned
BootPoll(cm, dbok) ==
    LET r == updateConfigMap(watcher, owner, cm, dbok)
    IN  /\ ~crashed
        /\ watcher.pc = "boot"
        /\ watcher' = [r.w EXCEPT !.pc = IF r.poll.updated THEN "running" ELSE "boot",
                                  !.last = r.poll]
        /\ owner' = r.owner
        /\ UNCHANGED <<nodeSubnet, unreleased, annot, bind, task, filter, crashed, livePods>>

\* the watcher: one round of go wait.Forever(updateConfigMap, time.Minute)
WatchPoll(cm, dbok) ==
    LET r == updateConfigMap(watcher, owner, cm, dbok)
    IN  /\ ~crashed
        /\ watcher.pc = "running"
        /\ watcher' = [r.w EXCEPT !.last = r.poll]
        /\ owner' = r.owner
        /\ UNCHANGED <<nodeSubnet, unreleased, annot, bind, task, filter, crashed, livePods>>

\* NewFloatingIPPlugin has made the plugin and found len(conf.FloatingIPs) = 0
InitConfig ==
    /\ owner = [ip \in {} |-> NoKey]
    /\ nodeSubnet = {}
    /\ unreleased = << >>
    /\ annot = [k \in Keys |-> NoAnnotation]
    /\ bind = [b \in Binders |-> IdleBind]
    /\ task = [t \in Tasks |-> IdleTask]
    /\ filter = IdleFilter
    /\ crashed = FALSE
    /\ livePods = {}
    /\ watcher = [pc |-> "boot", lastFIPConf |-> "", pool |-> NoPool, last |-> NoPoll]
    /\ event = NoEvent
\* NewFloatingIPPlugin has returned: the release loop runs and the plugin's
\* handlers are called
Started == watcher.pc \in {"inline", "running"}
NextConfig ==
    \/ \E cm \in ConfigMaps, dbok \in BOOLEAN : BootPoll(cm, dbok) /\ event' = NoEvent
    \/ \E cm \in ConfigMaps, dbok \in BOOLEAN : WatchPoll(cm, dbok) /\ event' = NoEvent
    \/ Started /\ PodEvent(LoopPods, FALSE)
    \/ \E t \in Tasks : Started /\ LoopRecv(t) /\ event' = NoEvent
    \/ \E t \in Tasks, lookup \in LiveLookups :
          Started /\ TaskUnbind(t, lookup, TRUE) /\ event' = NoEvent
SpecConfig == InitConfig /\ [][NextConfig]_vars

(***************************************************************************)
(* The unreleased channel when it is full.  The release loop has a task    *)
(* for every pod it receives, so the model gives it one slot per pod that  *)
(* can be in the channel or in a task; the store may fail every call.  A   *)
(* send on a full channel waits; the runtime serves waiting senders in     *)
(* the order they came, so a sender that finds room again and again is     *)
(* served.  Handlers wait in their call: they are the calls of UpdatePod   *)
(* and RemovePod that cannot happen while the channel is full.             *)
(***************************************************************************)
QueueTasks == 1..(MaxQueued + MaxSenders)
QueuePods == {p \in LoopPods : ~Matches(fipInvariantSeletor, p.labels)}
\* pods in the channel and in tasks
InFlight == Len(unreleased)
               + Cardinality({t \in QueueTasks : task[t].pc \notin {"idle", "done"}})
InitQueue ==
    /\ owner = [ip \in FloatingIPs |-> NoKey]
    /\ nodeSubnet = {}
    /\ unreleased = << >>
    /\ annot = [k \in Keys |-> NoAnnotation]
    /\ bind = [b \in Binders |-> IdleBind]
    /\ task = [t \in QueueTasks |-> IdleTask]
    /\ filter = IdleFilter
    /\ crashed = FALSE
    /\ livePods = {}
    /\ watcher = InlineWatcher
    /\ event = NoEvent
NextQueue ==
    \/ InFlight < MaxQueued + MaxSenders /\ PodEvent(QueuePods, FALSE)
    \/ \E t \in QueueTasks : LoopRecv(t) /\ event' = NoEvent
    \/ \E t \in QueueTasks, dbok \in BOOLEAN :
          TaskUnbind(t, NoLookup, dbok) /\ event' = NoEvent
    \/ \E t \in QueueTasks : TaskResend(t) /\ event' = NoEvent
QueueFairness ==
    /\ WF_vars(\E t \in QueueTasks : LoopRecv(t) /\ event' = NoEvent)
    /\ \A t \in QueueTasks :
          /\ WF_vars(\E dbok \in BOOLEAN : TaskUnbind(t, NoLookup, dbok) /\ event' = NoEvent)
          /\ SF_vars(TaskResend(t) /\ event' = NoEvent)
SpecQueue == InitQueue /\ [][NextQueue]_vars /\ QueueFairness

(***************************************************************************)
(* A pod is deleted or evicted and a pod of the same name is created       *)
(* again, as a workload controller does.  The handlers are called for the  *)
(* pod that goes, before the new pod is there; the release loop and Bind   *)
(* run side by side.                                                       *)
(***************************************************************************)
\* the live pod is deleted and the informer calls RemovePod(pod)
PodDeleted(pod) ==
    /\ ~crashed
    /\ keyInDB(pod) \in livePods
    /\ IF ~wantedObject(pod.labels) THEN unreleased' = unreleased
       ELSE CanSend /\ unreleased' = Append(unreleased, pod)
    /\ livePods' = livePods \ {keyInDB(pod)}
    /\ annot' = [annot EXCEPT ![keyInDB(pod)] = NoAnnotation]
    /\ UNCHANGED <<owner, nodeSubnet, bind, task, filter, crashed, watcher>>

\* the live pod is evicted and the informer calls UpdatePod(oldPod, newPod)
PodEvicted(oldPod, newPod) ==
    /\ ~crashed
    /\ keyInDB(newPod) \in livePods
    /\ evicted(newPod)
    /\ IF ~wantedObject(newPod.labels) THEN unreleased' = unreleased
       ELSE CanSend /\ unreleased' = Append(unreleased, newPod)
    /\ livePods' = livePods \ {keyInDB(newPod)}
    /\ annot' = [annot EXCEPT ![keyInDB(newPod)] = NoAnnotation]
    /\ UNCHANGED <<owner, nodeSubnet, bind, task, filter, crashed, watcher>>

NextRebind ==
    \/ \E key \in Keys : PodCreated(key) /\ event' = NoEvent
    \/ \E pod \in QueuePods : PodDeleted(pod) /\ event' = NoEvent
    \/ \E pod \in QueuePods : PodEvicted([pod EXCEPT !.phase = "Running", !.reason = ""], pod)
                                 /\ event' = NoEvent
    \/ \E t \in Tasks : TaskStep(t) /\ event' = NoEvent
    \/ /\ BindStep(1, {"n1", "n2"}, {TRUE}, {TRUE})
       /\ bind[1].pc \in {"idle", "done"} => bind'[1].key \in livePods
       /\ annot' # annot => bind[1].key \in livePods
       /\ event' = NoEvent
SpecRebind == Init /\ [][NextRebind]_vars

(***************************************************************************)
(* Concurrent Bind requests alone: no release interferes.                  *)
(***************************************************************************)
NextBind ==
    \E b \in Binders : BindStep(b, NodeNames, BOOLEAN, BOOLEAN) /\ event' = NoEvent
SpecBind == Init /\ [][NextBind]_vars

(***************************************************************************)
(* Filter(pod, nodes).                                                     *)
(***************************************************************************)
FilterSubnetsFoundNever(subnets) == FALSE
\* Filter: if len(subnets) != 0, the key's own subnets decide
FilterSubnetsFound(subnets) == Cardinality(subnets) # 0

\* Filter's verdict on one node: "accepted" or the reason put in failedNodesMap
FilterVerdict(cache, node, subsetSet) ==
    IF ~Matches(nodeSelector, node.labels) THEN "FloatingIPPlugin:UnlabelNode"
    ELSE LET r == getNodeSubnet(cache, node)
         IN  IF r.err # "nil" THEN r.err
             ELSE IF SubnetString(r.subnet) \in subsetSet THEN "accepted"
             ELSE "FloatingIPPlugin:NoFIPLeft"

\* Filter's loop over the nodes: filteredNodes in input order, and failedNodesMap as
\* a set of <<node name, reason>>
FilterNodes(cache, nodes, subsetSet) ==
    LET Accepted(node) == FilterVerdict(cache, node, subsetSet) = "accepted"
    IN  [accepted |-> SelectSeq(nodes, Accepted),
         failed |-> {<<nodes[i].name, FilterVerdict(cache, nodes[i], subsetSet)>> :
                        i \in {j \in 1..Len(nodes) : ~Accepted(nodes[j])}}]

\* Filter up to its first store call, QueryRoutableSubnetByKey(key); when the key
\* holds addresses the node loop follows at once
FilterQueryKey(pod, nodes, dbok) ==
    LET key == keyInDB(pod)
        subnets == QueryRoutableSubnetByKey(owner, key)
        fresh == [IdleFilter EXCEPT !.pod = pod, !.nodes = nodes]
        r == FilterNodes(nodeSubnet, nodes, subnets)
    IN  /\ ~crashed
        /\ filter.pc = "idle"
        /\ filter' =
              IF ~wantedObject(pod.labels)
              THEN [fresh EXCEPT !.pc = "done", !.accepted = nodes]
              ELSE IF ~dbok
              THEN [fresh EXCEPT !.pc = "done", !.err = "failed to query by key"]
              ELSE IF FilterSubnetsFound(subnets)
              THEN [fresh EXCEPT !.pc = "done", !.subnets = subnets,
                                 !.accepted = r.accepted, !.failed = r.failed]
              ELSE [fresh EXCEPT !.pc = "free"]
        /\ UNCHANGED <<owner, nodeSubnet, unreleased, annot, bind, task, crashed, livePods, watcher>>

\* Filter's second store call, QueryRoutableSubnetByKey(""), and the node loop
FilterQueryFree(dbok) ==
    LET subnets == QueryRoutableSubnetByKey(owner, NoKey)
        r == FilterNodes(nodeSubnet, filter.nodes, subnets)
    IN  /\ ~crashed
        /\ filter.pc = "free"
        /\ filter' =
              IF ~dbok
              THEN [filter EXCEPT !.pc = "done",
                                  !.err = "failed to query allocatable subnet"]
              ELSE [filter EXCEPT !.pc = "done", !.subnets = subnets,
                                  !.accepted = r.accepted, !.failed = r.failed]
        /\ UNCHANGED <<owner, nodeSubnet, unreleased, annot, bind, task, crashed, livePods, watcher>>

\* the extender has sent Filter's result and serves the next request
FilterReturn ==
    /\ ~crashed
    /\ filter.pc = "done"
    /\ filter' = IdleFilter
    /\ UNCHANGED <<owner, nodeSubnet, unreleased, annot, bind, task, crashed, livePods, watcher>>

(***************************************************************************)
(* Filter requests while the store changes under them: a Bind commits its  *)
(* AllocateInSubnet, an unbind commits its Release.                        *)
(***************************************************************************)
\* node lists without repetition, of bounded length
NodeLists ==
    UNION {{l \in [1..n -> Nodes] : \A i, j \in 1..n : i # j => l[i] # l[j]} :
              n \in 0..MaxNodeList}
FilterPods == {p \in Pods : p.phase = "Running" /\ p.reason = ""}

\* the AllocateInSubnet(key, subnet) of a Bind commits
StoreAllocate(key, subnet) ==
    /\ ~crashed
    /\ AllocateInSubnet(owner, key, subnet).err = "nil"
    /\ owner' = AllocateInSubnet(owner, key, subnet).owner
    /\ UNCHANGED <<nodeSubnet, unreleased, annot, bind, task, filter, crashed, livePods, watcher>>

\* the Release([key]) of an unbind commits
StoreRelease(key) ==
    /\ ~crashed
    /\ owner' = Release(owner, {key})
    /\ UNCHANGED <<nodeSubnet, unreleased, annot, bind, task, filter, crashed, livePods, watcher>>

NextFilter ==
    \/ \E pod \in FilterPods, nodes \in NodeLists, dbok \in BOOLEAN :
          FilterQueryKey(pod, nodes, dbok) /\ event' = NoEvent
    \/ \E dbok \in BOOLEAN : FilterQueryFree(dbok) /\ event' = NoEvent
    \/ FilterReturn /\ event' = NoEvent
    \/ \E key \in Keys, subnet \in Subnets : StoreAllocate(key, subnet) /\ event' = NoEvent
    \/ \E key \in Keys : StoreRelease(key) /\ event' = NoEvent
SpecFilter == Init /\ [][NextFilter]_vars

(***************************************************************************)
(* Properties of Filter (under SpecFilter).                                *)
(***************************************************************************)
PodWanted(pod) == <<"network", "FLOATINGIP">> \in pod.labels
FreeIn(o, subnet) == {ip \in Owned(o, NoKey) : ip[1] = subnet}
NodeLabelled(node) == <<"network", "floatingip">> \in node.labels
\* the subnets in which key holds a record; with NoKey, those with a free record
SubnetsOf(o, key) == {SubnetString(ip[1]) : ip \in {x \in FloatingIPs : o[x] = key}}
\* node is labelled and its internal address resolves to a subnet of subnets
Eligible(node, subnets) ==
    /\ NodeLabelled(node)
    /\ SubnetOfNode(node).err = "nil"
    /\ SubnetString(SubnetOfNode(node).subnet) \in subnets
FilterAnswered == filter.pc = "done" /\ PodWanted(filter.pod) /\ filter.err = "nil"

\* C1 (state part): the accepted nodes are the eligible ones, in input order, the
\* failed ones are all the others, and no node is both
C1_Partition ==
    FilterAnswered =>
       LET Ok(node) == Eligible(node, filter.subnets)
           accepted == {filter.accepted[i].name : i \in 1..Len(filter.accepted)}
           failed == {f[1] : f \in filter.failed}
       IN  /\ filter.accepted = SelectSeq(filter.nodes, Ok)
           /\ failed = {filter.nodes[i].name :
                           i \in {j \in 1..Len(filter.nodes) : ~Ok(filter.nodes[j])}}
           /\ accepted \cap failed = {}
\* C1 (step part): the subnet set is the one the store gives for the pod's key: the
\* key's own subnets, or the subnets with a free record when the key has none
C1_SubnetSet ==
    (filter.pc # "done" /\ filter'.pc = "done" /\ PodWanted(filter'.pod)
        /\ filter'.err = "nil")
    => filter'.subnets = IF filter.pc = "idle"
                         THEN SubnetsOf(owner, keyInDB(filter'.pod))
                         ELSE SubnetsOf(owner, NoKey)
\* C1: for a pod matching the object selector Filter accepts exactly the nodes that
\* match the node selector and whose routable subnet is in the subnet set computed
\* for the pod's key; every other node is in failedNodes, none is in both
C1_FilterPartition == []C1_Partition /\ [][C1_SubnetSet]_vars
\* Filter answered with one node accepted and another rejected
C1_Witness ==
    /\ FilterAnswered
    /\ Len(filter.accepted) > 0
    /\ filter.failed # {}

\* C2: for a pod that does not match the object selector Filter returns the node
\* list as it came, an empty failedNodes and no error, and never waits for the store
C2_PassThrough ==
    /\ (filter.pc = "done" /\ ~PodWanted(filter.pod))
          => /\ filter.accepted = filter.nodes
             /\ filter.failed = {}
             /\ filter.err = "nil"
    /\ filter.pc = "free" => PodWanted(filter.pod)
\* Filter passed through a list with an unlabelled node for a pod whose network
\* label is not FLOATINGIP, while the pod's key holds an address
C2_Witness ==
    /\ filter.pc = "done" /\ ~PodWanted(filter.pod)
    /\ filter.pod.labels # NilLabels
    /\ \E i \in 1..Len(filter.accepted) : ~NodeLabelled(filter.accepted[i])
    /\ Owned(owner, keyInDB(filter.pod)) # {}

\* C3 (step part): a Filter whose key owns an address answers from the key's subnets
\* alone; one whose key owns none goes on to the subnets with a free address
C3_KeyFirst ==
    LET pod == filter'.pod
        key == keyInDB(pod)
        mine == SubnetsOf(owner, key)
    IN  /\ (filter.pc = "idle" /\ filter'.pc # "idle" /\ PodWanted(pod)
               /\ filter'.err = "nil" /\ Owned(owner, key) # {})
            => /\ filter'.pc = "done"
               /\ \A i \in 1..Len(filter'.accepted) :
                     SubnetString(SubnetOfNode(filter'.accepted[i]).subnet) \in mine
               /\ \A i \in 1..Len(filter'.nodes) :
                     LET node == filter'.nodes[i]
                     IN  (/\ NodeLabelled(node)
                          /\ SubnetOfNode(node).err = "nil"
                          /\ SubnetString(SubnetOfNode(node).subnet) \notin mine)
                         => <<node.name, "FloatingIPPlugin:NoFIPLeft">> \in filter'.failed
        /\ (filter.pc = "idle" /\ filter'.pc # "idle" /\ PodWanted(pod)
               /\ filter'.err = "nil" /\ Owned(owner, key) = {})
            => filter'.pc = "free"
        /\ (filter.pc = "free" /\ filter'.pc = "done" /\ filter'.err = "nil")
            => LET Ok(node) == Eligible(node, SubnetsOf(owner, NoKey))
               IN  filter'.accepted = SelectSeq(filter'.nodes, Ok)
\* C3: when the pod's key already owns an address Filter accepts only nodes of the
\* subnets in which the key holds one, and rejects a labelled node of another subnet
\* with NoFIPLeft even if that subnet has free addresses; only when the key owns
\* none does Filter accept the nodes of every subnet with a free address
C3_OwnedSubnetFirst == [][C3_KeyFirst]_vars
\* Filter rejected, with NoFIPLeft, a labelled node whose subnet has a free address,
\* because the pod's key holds an address elsewhere
C3_Witness ==
    /\ FilterAnswered
    /\ filter.subnets = SubnetsOf(owner, keyInDB(filter.pod))
    /\ Owned(owner, keyInDB(filter.pod)) # {}
    /\ \E i \in 1..Len(filter.nodes) :
          LET node == filter.nodes[i]
          IN  /\ NodeLabelled(node)
              /\ SubnetOfNode(node).err = "nil"
              /\ FreeIn(owner, SubnetOfNode(node).subnet) # {}
              /\ <<node.name, "FloatingIPPlugin:NoFIPLeft">> \in filter.failed

(***************************************************************************)
(* Properties of concurrent Bind requests (under SpecBind).                *)
(***************************************************************************)
\* the Bind of thread b holds an address: it reused or allocated one
Holds(b) == bind[b].ip # NilIP

\* C4 (state part): two Binds of distinct keys never hold the same address, the
\* address a Bind holds is owned by its key, and no address is published to two keys
C4_Exclusive ==
    /\ \A b \in Binders : Holds(b) => owner[bind[b].ip] = bind[b].key
    /\ \A b1, b2 \in Binders :
          (Holds(b1) /\ Holds(b2) /\ bind[b1].key # bind[b2].key)
             => bind[b1].ip # bind[b2].ip
    /\ \A k1, k2 \in Keys :
          (k1 # k2 /\ annot[k1] # NoAnnotation) => annot[k1] # annot[k2]
\* C4 (step part): a record changes owner only from free to the key of a Bind that
\* is allocating in the record's subnet
C4_ClaimsFree ==
    \A ip \in FloatingIPs :
       owner'[ip] # owner[ip] =>
          /\ owner[ip] = NoKey
          /\ \E b \in Binders : /\ bind[b].pc = "allocate"
                                /\ bind[b].subnet = ip[1]
                                /\ owner'[ip] = bind[b].key
\* C4: under any interleaving of concurrent Binds, every successful allocation takes
\* an address that was free in the node's subnet, and no address is handed to two keys
C4_NoDoubleAllocation == []C4_Exclusive /\ [][C4_ClaimsFree]_vars
\* two Binds of distinct keys hold addresses of the same subnet
C4_Witness ==
    \E b1, b2 \in Binders :
       /\ bind[b1].key # bind[b2].key
       /\ bind[b1].how = "allocated" /\ bind[b2].how = "allocated"
       /\ Holds(b1) /\ Holds(b2)
       /\ bind[b1].ip[1] = bind[b2].ip[1]

\* C5 (state part): with no release, a key owns at most one address, a Bind holds
\* the address its key owns, and the annotation of a key is that address
C5_OneRecord ==
    /\ \A k \in Keys : Cardinality(Owned(owner, k)) <= 1
    /\ \A b \in Binders : Holds(b) => Owned(owner, bind[b].key) = {bind[b].ip}
    /\ \A k \in Keys :
          annot[k] # NoAnnotation =>
             \E ip \in Owned(owner, k) : annot[k] = MarshalIPInfo(ip)
\* C5 (step part): a Bind that starts while its key owns an address, and whose query
\* succeeds, goes on to publish exactly that address and claims nothing
C5_Reuses ==
    \A b \in Binders :
       (/\ bind[b].pc \in {"idle", "done"}
        /\ bind'[b] # bind[b]
        /\ bind'[b].err = "nil"
        /\ Owned(owner, bind'[b].key) # {})
       => /\ bind'[b].pc = "patch"
          /\ bind'[b].how = "reused"
          /\ bind'[b].ip = QueryFirst(owner, bind'[b].key)
          /\ owner' = owner
\* C5: Bind is idempotent per owner key: a Bind whose key already owns an address
\* publishes that address and claims no record, whatever the node; with no
\* intervening release the key owns one address and every Bind publishes it
C5_BindIdempotent == []C5_OneRecord /\ [][C5_Reuses]_vars
\* a Bind that reused the record of its key has published it
C5_Witness ==
    \E b \in Binders :
       /\ bind[b].pc = "done" /\ bind[b].err = "nil" /\ bind[b].how = "reused"
       /\ annot[bind[b].key] = MarshalIPInfo(bind[b].ip)

\* C6, as claimed: of two concurrent Binds with the same key neither fails with the
\* already-allocated error; both end holding the one address of the key
C6_ConcurrentBindsConverge ==
    /\ \A b \in Binders :
          bind[b].pc = "done" => bind[b].err # "ErrAlreadyAllocated"
    /\ \A b1, b2 \in Binders :
          (bind[b1].key = bind[b2].key /\ Holds(b1) /\ Holds(b2))
             => /\ bind[b1].ip = bind[b2].ip
                /\ Owned(owner, bind[b1].key) = {bind[b1].ip}

\* C7: a Bind that returns because the patch kept failing has spent its whole retry
\* budget and leaves the allocation in place: its key still owns the address
C7_PatchFailureKeepsAllocation ==
    \A b \in Binders :
       (bind[b].pc = "done" /\ bind[b].err = "failed to update pod")
       => /\ bind[b].tries = MaxPatchTries
          /\ Holds(b)
          /\ owner[bind[b].ip] = bind[b].key
\* a Bind returned the patch error while its key owns the address it allocated
C7_Witness ==
    \E b \in Binders :
       /\ bind[b].pc = "done" /\ bind[b].err = "failed to update pod"
       /\ bind[b].how = "allocated"
       /\ owner[bind[b].ip] = bind[b].key

\* C8 (step part): an allocation attempted while the key owns nothing and the node's
\* subnet has no free address ends the Bind with ErrNoEnoughIP itself, sends no
\* patch and changes no record
C8_Exhausted ==
    \A b \in Binders :
       (/\ bind[b].pc = "allocate"
        /\ bind'[b] # bind[b]
        /\ bind[b].subnet # NilSubnet
        /\ Owned(owner, bind[b].key) = {}
        /\ FreeIn(owner, bind[b].subnet) = {}
        /\ bind'[b].err # "ErrStore")
       => /\ bind'[b].pc = "done"
          /\ bind'[b].err = "ErrNoEnoughIP"
          /\ owner' = owner
          /\ annot' = annot
\* C8 (state part): a Bind that returned ErrNoEnoughIP sent no patch and holds nothing
C8_NothingSent ==
    \A b \in Binders :
       (bind[b].pc = "done" /\ bind[b].err = "ErrNoEnoughIP")
       => bind[b].tries = 0 /\ ~Holds(b)
\* C8: when the key owns no address and the chosen node's subnet has none free, Bind
\* fails with ErrNoEnoughIP unwrapped, no patch is sent and no record changes
C8_NoEnoughIP == []C8_NothingSent /\ [][C8_Exhausted]_vars
\* a Bind returned ErrNoEnoughIP for a resolved subnet that is fully allocated
C8_Witness ==
    \E b \in Binders :
       /\ bind[b].pc = "done" /\ bind[b].err = "ErrNoEnoughIP"
       /\ bind[b].subnet # NilSubnet
       /\ FreeIn(owner, bind[b].subnet) = {}
       /\ Owned(owner, bind[b].key) = {}

(***************************************************************************)
(* Properties of the event handlers (under SpecEvents).                    *)
(***************************************************************************)
MatchesObjectSelector(pod) == <<"network", "FLOATINGIP">> \in pod.labels
IsEvicted(pod) == pod.phase = "Failed" /\ pod.reason = "Evicted"

\* C9 (step part): what each kind of step does to the unreleased channel
C9_Enqueue ==
    LET pod == event'.pod
        sent == Append(unreleased, pod)
    IN  /\ event'.kind = "AddPod" => unreleased' = unreleased
        /\ event'.kind = "UpdatePod" =>
              unreleased' = IF MatchesObjectSelector(pod) /\ IsEvicted(pod)
                            THEN sent ELSE unreleased
        /\ event'.kind = "RemovePod" =>
              unreleased' = IF MatchesObjectSelector(pod) THEN sent ELSE unreleased
        /\ event'.kind = "" =>
              \/ unreleased' = unreleased
              \/ Len(unreleased) > 0 /\ unreleased' = Tail(unreleased)
              \/ \E t \in Tasks : /\ task[t].pc = "backoff"
                                  /\ unreleased' = Append(unreleased, task[t].pod)
\* C9 (state part): every pod in the channel or in an unbind task matches the
\* object selector
C9_OnlyWanted ==
    /\ \A i \in 1..Len(unreleased) : MatchesObjectSelector(unreleased[i])
    /\ \A t \in Tasks : task[t].pc # "idle" => MatchesObjectSelector(task[t].pod)
\* C9: UpdatePod enqueues the new pod exactly when it matches the object selector
\* and is evicted, RemovePod exactly when the pod matches the object selector, AddPod
\* never; beyond that the channel only loses its head to the loop or regains the pod
\* of a failed unbind, so no unmatched pod is ever queued or unbound
C9_EnqueueRules == []C9_OnlyWanted /\ [][C9_Enqueue]_vars
\* UpdatePod has just enqueued an evicted pod that matches the object selector
C9_Witness ==
    /\ event.kind = "UpdatePod"
    /\ MatchesObjectSelector(event.pod) /\ IsEvicted(event.pod)
    /\ Len(unreleased) > 0
    /\ unreleased[Len(unreleased)] = event.pod

(***************************************************************************)
(* Properties of unbind (under Spec).                                      *)
(***************************************************************************)
MatchesInvariantSelector(pod) == <<"floatingip", "invariant">> \in pod.labels

\* C10 (step part): when the unbind of a pod outside the invariant selector returns
\* nil, its key owns nothing, every record the key held is free and no other record
\* changed; when the key held nothing the unbind returns nil unless the store fails
C10_Released ==
    \A t \in Tasks :
       LET key == keyInDB(task[t].pod)
       IN  /\ (/\ task[t].pc \in {"unbind", "release"}
               /\ task'[t].pc = "done" /\ task'[t].err = "nil"
               /\ ~MatchesInvariantSelector(task[t].pod))
              => /\ QueryFirst(owner', key) = NilIP
                 /\ \A ip \in FloatingIPs :
                       owner'[ip] = IF owner[ip] = key THEN NoKey ELSE owner[ip]
           /\ (/\ task[t].pc = "unbind"
               /\ task'[t] # task[t]
               /\ ~MatchesInvariantSelector(task[t].pod)
               /\ Owned(owner, key) = {}
               /\ task'[t].pc # "backoff")
              => task'[t].pc = "done" /\ task'[t].err = "nil" /\ owner' = owner
\* C10: for a pod that does not match the invariant selector a successful unbind
\* releases the owner key: afterwards QueryFirst(key) is nil and the address the key
\* held is free; when the key held none, unbind succeeds and changes no record
C10_UnbindReleases == [][C10_Released]_vars
\* an unbind of a pod outside the invariant selector returned nil after releasing
\* the address its key held
C10_Witness ==
    \E t \in Tasks :
       /\ task[t].pc = "done" /\ task[t].err = "nil"
       /\ ~MatchesInvariantSelector(task[t].pod)
       /\ task[t].ip # NilIP
       /\ owner[task[t].ip] = NoKey
       /\ Owned(owner, keyInDB(task[t].pod)) = {}

\* the workload lookup of a task found a workload
WorkloadFound(lookup) == lookup.err = "nil" /\ Len(lookup.tapps) > 0
\* the status entry of the found workload at the pod's instance index is killed, in
\* any letter case
KilledAtIndex(pod, lookup) ==
    \E st \in lookup.tapps[1] :
       /\ st[1] = LabelValue(pod.labels, TAppInstanceKey)
       /\ st[2] \in {"Killed", "killed"}

\* C11 (step part): the unbind of an invariant pod whose workload is found goes on
\* to release exactly when the status at the pod's index is killed; otherwise it
\* returns nil and no record changes.  The release of such a task frees the key, and
\* a Bind that finds the key's record reuses it
C11_Decision ==
    /\ \A t \in Tasks :
          LET pod == task[t].pod
              key == keyInDB(pod)
              lookup == task'[t].lookup
          IN  /\ (/\ task[t].pc = "unbind" /\ task'[t] # task[t]
                  /\ MatchesInvariantSelector(pod)
                  /\ WorkloadFound(lookup))
                 => IF KilledAtIndex(pod, lookup)
                    THEN /\ owner' = owner
                         /\ \/ task'[t].pc = "release" /\ task'[t].ip = QueryFirst(owner, key)
                            \/ task'[t].pc = "done" /\ Owned(owner, key) = {}
                            \/ task'[t].pc = "backoff"
                    ELSE /\ task'[t].pc = "done" /\ task'[t].err = "nil"
                         /\ task'[t].ip = NilIP
                         /\ owner' = owner
              /\ (/\ task[t].pc = "release" /\ task'[t].pc = "done"
                  /\ MatchesInvariantSelector(pod))
                 => owner' = Release(owner, {key})
    /\ (/\ bind[1].pc \in {"idle", "done"} /\ bind'[1] # bind[1]
        /\ Owned(owner, bind'[1].key) # {})
       => /\ bind'[1].how = "reused"
          /\ bind'[1].ip = QueryFirst(owner, bind'[1].key)
          /\ owner' = owner
\* C11 (state part): a task of an invariant pod whose workload was found is on its
\* way to release, or has released, only if the status at the pod's index is killed
C11_OnlyKilled ==
    \A t \in Tasks :
       (/\ MatchesInvariantSelector(task[t].pod)
        /\ WorkloadFound(task[t].lookup)
        /\ (task[t].pc \in {"release", "backoff"} \/ task[t].ip # NilIP))
       => KilledAtIndex(task[t].pod, task[t].lookup)
\* C11: for an invariant pod whose workload is found, unbind releases the key's
\* address if and only if the workload's status at the pod's instance index is killed,
\* whatever the letter case; otherwise the allocation is unchanged and a later Bind
\* with the same key reuses the address
C11_InvariantRetention == []C11_OnlyKilled /\ [][C11_Decision]_vars
\* the unbind of an invariant pod retained the address of its key, since the status at
\* its index is not killed, and a Bind for the key has reused and published it
C11_Witness ==
    \E t \in Tasks :
       /\ task[t].pc = "done" /\ task[t].err = "nil"
       /\ MatchesInvariantSelector(task[t].pod)
       /\ WorkloadFound(task[t].lookup)
       /\ ~KilledAtIndex(task[t].pod, task[t].lookup)
       /\ task[t].lookup.tapps[1] # {}
       /\ bind[1].pc = "done" /\ bind[1].how = "reused"
       /\ bind[1].key = keyInDB(task[t].pod)
       /\ owner[bind[1].ip] = bind[1].key
       /\ annot[bind[1].key] = MarshalIPInfo(bind[1].ip)
\* the unbind of an invariant pod released the address of its key on a status
\* written in lower case
C11_WitnessKilled ==
    \E t \in Tasks :
       /\ task[t].pc = "done" /\ task[t].err = "nil"
       /\ MatchesInvariantSelector(task[t].pod)
       /\ WorkloadFound(task[t].lookup)
       /\ <<"0", "killed">> \in task[t].lookup.tapps[1]
       /\ task[t].ip # NilIP /\ owner[task[t].ip] = NoKey

(***************************************************************************)
(* Properties of the release loop under fair scheduling (under SpecLive).  *)
(***************************************************************************)
\* an evicted pod outside the invariant selector, matching the object selector, has
\* been sent to the unreleased channel while its key owns address ip
EvictedHolderQueued(ip) ==
    \E i \in 1..Len(unreleased) :
       /\ MatchesObjectSelector(unreleased[i])
       /\ ~MatchesInvariantSelector(unreleased[i])
       /\ IsEvicted(unreleased[i])
       /\ owner[ip] = keyInDB(unreleased[i])

\* C12: once UpdatePod has enqueued an evicted pod that matches the object selector
\* and not the invariant selector while its key owns an address, then, with the loop
\* and its tasks scheduled fairly and the store answering, that address eventually
\* becomes free
C12_EvictionLeadsToRelease ==
    \A ip \in FloatingIPs : EvictedHolderQueued(ip) ~> (owner[ip] = NoKey)
\* the address released from the key of an evicted pod is now owned by another key
C12_Witness ==
    \E t \in Tasks :
       /\ task[t].pc = "done" /\ task[t].err = "nil"
       /\ ~MatchesInvariantSelector(task[t].pod) /\ IsEvicted(task[t].pod)
       /\ task[t].ip # NilIP
       /\ owner[task[t].ip] \in Keys
       /\ owner[task[t].ip] # keyInDB(task[t].pod)

(***************************************************************************)
(* Properties of the retry of failed unbinds (under SpecRetry).            *)
(***************************************************************************)
\* an unbind of pod has returned nil
Unbound(pod) ==
    \E t \in Tasks : task[t].pc = "done" /\ task[t].err = "nil" /\ task[t].pod = pod

\* C13 (step part): an unbind that fails leaves its task about to send the same pod
\* back; the send appends that pod to the channel; a task ends without sending only
\* when its unbind returned nil
C13_Requeue ==
    \A t \in Tasks :
       /\ (task[t].pc \in {"unbind", "release"} /\ task'[t] # task[t])
          => /\ task'[t].pod = task[t].pod
             /\ task'[t].err # "nil" => task'[t].pc = "backoff"
             /\ task'[t].pc = "done" => task'[t].err = "nil"
       /\ (task[t].pc = "backoff" /\ task'[t] # task[t])
          => /\ unreleased' = Append(unreleased, task[t].pod)
             /\ task'[t].pc = "done"
\* C13 (state part): a pod whose unbind failed is held by its task until it is sent
C13_Kept ==
    \A t \in Tasks :
       task[t].err # "nil" => task[t].pc \in {"backoff", "done"} /\ task[t].pod # NoPod
\* C13 (liveness part): a dequeued pod is eventually unbound without error, however
\* often its unbind fails before
C13_EventuallyUnbound ==
    \A pod \in RetryPods :
       (\E t \in Tasks : task[t].pc = "unbind" /\ task[t].pod = pod) ~> Unbound(pod)
\* C13: every failed unbind puts the same pod back on the unreleased channel, any
\* number of times; a dequeued pod leaves the loop only when an unbind of it returned
\* nil, which happens eventually once the unbind stops failing
C13_RetryUntilUnbound ==
    /\ []C13_Kept
    /\ [][C13_Requeue]_vars
    /\ C13_EventuallyUnbound
\* a pod whose unbind failed is back on the channel, and the task that sent it back
\* has ended
C13_Witness ==
    \E t \in Tasks :
       /\ task[t].pc = "done" /\ task[t].err = "failed to release floating ip"
       /\ Len(unreleased) > 0
       /\ unreleased[Len(unreleased)] = task[t].pod

(***************************************************************************)
(* Properties of the resync (under SpecResync).                            *)
(***************************************************************************)
\* a Bind allocated ip for key and gave up patching; the annotation was never
\* written and no live pod has the key
Stranded(key, ip) ==
    /\ bind[1].pc = "done" /\ bind[1].err = "failed to update pod"
    /\ bind[1].how = "allocated"
    /\ bind[1].key = key /\ bind[1].ip = ip
    /\ owner[ip] = key
    /\ annot[key] = NoAnnotation
    /\ key \notin livePods

LoopAtWork == Len(unreleased) > 0 \/ \E t \in Tasks : task[t].pc # "idle"

\* C15, as claimed: construction completes, and the release loop starts, only after
\* a fetched pool definition was unmarshalled and applied by ConfigurePool without
\* error; until then startup keeps polling
C15_StartupWaitsForPool ==
    /\ watcher.pc = "running" => watcher.pool # NoPool
    /\ LoopAtWork => watcher.pool # NoPool
    /\ (watcher.pc = "boot" /\ watcher.last.fetch # "") => ~watcher.last.updated

\* C16 (step part): what a call of updateConfigMap does to p.lastFIPConf and to the
\* pool, by what it fetched
C16_Poll ==
    LET l == watcher'.last
    IN  watcher' # watcher =>
          /\ (l.fetch = "value" /\ l.val = watcher.lastFIPConf)
                => /\ ~l.parsed /\ ~l.configured /\ ~l.updated
                   /\ watcher'.lastFIPConf = watcher.lastFIPConf
                   /\ watcher'.pool = watcher.pool /\ owner' = owner
          /\ l.configured => l.fetch = "value" /\ l.val # watcher.lastFIPConf /\ l.parsed
          /\ watcher'.lastFIPConf # watcher.lastFIPConf
                => /\ l.fetch = "value" /\ l.val # watcher.lastFIPConf
                   /\ Unmarshal(l.val).err = "nil"
                   /\ watcher'.lastFIPConf = l.val
          /\ (l.fetch \in {"error", "nokey"}
                 \/ (l.fetch = "value" /\ Unmarshal(l.val).err # "nil"))
                => /\ ~l.configured /\ ~l.updated
                   /\ watcher'.lastFIPConf = watcher.lastFIPConf
                   /\ watcher'.pool = watcher.pool /\ owner' = owner
\* C16: a poll that fetches the value p.lastFIPConf holds calls neither the parser
\* nor ConfigurePool and changes nothing; p.lastFIPConf is replaced only by a fetched
\* value that differs from it and parses; a poll that fails to fetch, finds no
\* floatingips key or cannot parse leaves p.lastFIPConf and the pool as they were
C16_ConfigureOnlyOnChange == [][C16_Poll]_vars
\* the watcher has just polled the value it applied before, without parsing it
C16_Witness ==
    /\ watcher.pc = "running"
    /\ watcher.last.fetch = "value" /\ watcher.last.val = watcher.lastFIPConf
    /\ ~watcher.last.parsed /\ ~watcher.last.configured
    /\ watcher.pool = Unmarshal(watcher.lastFIPConf).conf

\* C17, as claimed: a poll that fetches a definition which parses and which is not
\* the pool the IPAM has applied calls ConfigurePool, also when an earlier
\* ConfigurePool of the same definition failed
C17_Step ==
    LET l == watcher'.last
    IN  (/\ watcher' # watcher
         /\ l.fetch = "value"
         /\ Unmarshal(l.val).err = "nil"
         /\ watcher.pool # Unmarshal(l.val).conf)
        => l.configured
C17_RetryAfterConfigError == [][C17_Step]_vars

(***************************************************************************)
(* Properties of the node-subnet cache (under SpecBind).                   *)
(***************************************************************************)
\* C18, as claimed: once a lookup has resolved a node to a subnet, p.nodeSubnet maps
\* the node to that subnet: the cache holds the subnet a Bind resolved for its node,
\* and every node that Filter accepted
C18_CachePopulated ==
    /\ \A b \in Binders :
          (bind[b].subnet # NilSubnet /\ bind[b].nerr = "nil")
             => \E e \in nodeSubnet : e[2] = bind[b].subnet
    /\ (filter.pc = "done" /\ PodWanted(filter.pod) /\ filter.err = "nil")
          => \A i \in 1..Len(filter.accepted) :
                <<filter.accepted[i].name, SubnetOfNode(filter.accepted[i]).subnet>>
                   \in nodeSubnet

(***************************************************************************)
(* Properties of unbind when the workload is not found (under Spec).       *)
(***************************************************************************)
\* C19, as claimed: the unbind of an invariant pod whose workload lookup failed or
\* delivered no workload goes on to release and returns normally; no task and no
\* process ends on the empty list
C19_NoAbort ==
    /\ ~crashed
    /\ \A t \in Tasks : task[t].err # "panic"
C19_Releases ==
    \A t \in Tasks :
       LET pod == task[t].pod
           key == keyInDB(pod)
       IN  (/\ task[t].pc = "unbind" /\ task'[t] # task[t]
            /\ MatchesInvariantSelector(pod)
            /\ ~WorkloadFound(task'[t].lookup))
           => \/ task'[t].pc = "release" /\ task'[t].ip = QueryFirst(owner, key)
              \/ task'[t].pc = "done" /\ task'[t].err = "nil" /\ Owned(owner, key) = {}
              \/ task'[t].pc = "backoff"
C19_FailOpen == []C19_NoAbort /\ [][C19_Releases]_vars

(***************************************************************************)
(* Properties of the full unreleased channel (under SpecQueue).            *)
(***************************************************************************)
\* the channel is full: a send waits
ChannelFull == ~CanSend

\* C20 (state part): whenever the channel holds a pod the loop has a task to hand it
\* to, so the receive is not held up by the tasks at work
C20_CanReceive ==
    Len(unreleased) > 0 => \E t \in QueueTasks : task[t].pc \in {"idle", "done"}
\* C20 (liveness part): a task that waits to send its pod back gets to send it, and
\* a full channel gets room again, also while every unbind keeps failing
C20_SendsComplete ==
    /\ \A t \in QueueTasks : (task[t].pc = "backoff") ~> (task[t].pc # "backoff")
    /\ ChannelFull ~> ~ChannelFull
C21_Unresolved ==
    \A b \in Binders :
       bind[b].nerr # "nil"
          => /\ bind[b].pc = "done"
             /\ bind[b].err = bind[b].nerr
             /\ ~Holds(b)
C21_ClaimsNothing ==
    \A b \in Binders :
       (bind[b].pc = "allocate" /\ bind[b].subnet = NilSubnet) => owner' = owner
C21_UnresolvedSubnetFailsBind == []C21_Unresolved /\ [][C21_ClaimsNothing]_vars

(***************************************************************************)
(* Properties of a pod created again under its old key (SpecRebind).       *)
(***************************************************************************)
\* a Bind has succeeded for the live pod of key and its address is published
BoundAndLive(key) ==
    /\ key \in livePods
    /\ annot[key] # NoAnnotation
    /\ bind[1].pc = "done" /\ bind[1].err = "nil" /\ bind[1].key = key

\* C22, as claimed: while the pod that a Bind succeeded for is neither removed nor
\* evicted, the address in its annotation is owned by its key, whatever unbind of an
\* earlier pod with the same key is still queued, running or waiting to retry
C22_LivePodKeepsIP ==
    \A key \in Keys :
       BoundAndLive(key)
          => \E ip \in FloatingIPs : annot[key] = MarshalIPInfo(ip) /\ owner[ip] = key

====
